---- MODULE Spec2Model ----
(***************************************************************************)
(* A model of src/app.py: the rate limiter (RateLimiter), the ticker cache *)
(* (ticker_cache, get_cached_data, cache_data, clear_cache), the fetcher   *)
(* with backoff (get_ticker_data_with_backoff), the validator              *)
(* (validate_ticker_with_delay) and the batch handler (get_stock_data).    *)
(*                                                                         *)
(* Time is the wall clock in whole seconds.  Handlers run in threads; a    *)
(* thread's position is th[t].pc and its locals are the other fields of    *)
(* th[t].  Variables whose comment says "history" are not program state:   *)
(* they record what happened so that properties can refer to it.           *)
(***************************************************************************)
EXTENDS Integers, Sequences, FiniteSets

VARIABLES
    now,            \* the wall clock, datetime.now(), in seconds
    ticks,          \* number of Tick steps taken (bounds the model)
    requests,       \* rate_limiter.requests: list of admission timestamps
    lock,           \* rate_limiter.lock: "free" or the thread holding it
    ticker_cache,   \* ticker_cache: key -> NoEntry or [time, data]
    th,             \* per thread: the running handler, its position, its locals
    batch,          \* locals of get_stock_data (run by BatchThread)
    admitted,       \* history: timestamps at which can_make_request returned True
    issued,         \* history: upstream calls issued: [at, adm, stamp]
    lastPut,        \* history: key -> NoEntry or [time, data] of the last cache_data, reset by clear
    lastGet,        \* history: the last get_cached_data that returned: [thread, key, ret, at, put] or NoGet
    ops,            \* number of handler invocations started (bounds the model)
    logging         \* history: whether admitted and issued are kept in this run

vars == <<now, ticks, requests, lock, ticker_cache, th, batch,
          admitted, issued, lastPut, lastGet, ops, logging>>

(***************************************************************************)
(* Program constants                                                       *)
(***************************************************************************)
max_requests == 5
time_window == 60
CACHE_DURATION == 300
DEFAULT_MAX_RETRIES == 3
MAX_TICKERS == 5
INTER_TICKER_PAUSE == 2
SUCCESS_PAUSE == 1
RATE_LIMIT_BASE == 3
RATE_LIMIT_OFFSET == 5
BACKOFF_BASE == 2
\* timedelta.seconds is the seconds field of a (days, seconds, microseconds)
\* triple: 0 <= seconds < 86400
SECONDS_PER_DAY == 86400

(***************************************************************************)
(* Bounds of the model                                                     *)
(***************************************************************************)
\* Spec: handler invocations, clock advances
MaxOps == 2
MaxTicks == 1
\* SpecGate: calls of the rate limiter, clock advances
MaxGateCalls == 7
MaxGateTicks == 2
\* SpecCache: cache operations, clock advances
MaxCacheOps == 3
MaxCacheTicks == 2
\* SpecRate: handler invocations
MaxRateOps == 3
\* SpecRace: handler invocations
MaxRaceOps == 3
\* SpecDup: handler invocations
MaxDupOps == 2
\* SpecWait: handler invocations, clock advances
MaxWaitOps == 7
MaxWaitTicks == 2
\* SpecBatch: tickers in the request
MaxBatch == 3

Threads == {"t1", "t2"}
BatchThread == "t1"
Tickers == {"AAA", "BBB", "CCC"}
\* f"validate_{ticker}" (lines 67, 83)
ValidateKey(ticker) ==
    CASE ticker = "AAA" -> "validate_AAA"
      [] ticker = "BBB" -> "validate_BBB"
      [] OTHER -> "validate_CCC"
Keys == Tickers \cup {ValidateKey(k) : k \in Tickers}
\* clock advances: around the window of the rate limiter and a whole day
GateDeltas == {1, 59, 86400}
\* around the lifetime of a cache entry and a whole day
CacheDeltas == {299, 300, 86400}

(***************************************************************************)
(* Values                                                                  *)
(***************************************************************************)
None == [kind |-> "None"]
Bool(b) == [kind |-> "bool", val |-> b]
\* the dict {'history': hist, 'info': additional_info} of lines 132-135
Result(hist, info) == [kind |-> "result", history |-> hist, info |-> info]
NoEntry == [kind |-> "absent"]
Entry(time, data) == [kind |-> "entry", time |-> time, data |-> data]
NoGet == [kind |-> "noget"]

Max(a, b) == IF a >= b THEN a ELSE b
RECURSIVE Pow(_, _)
Pow(b, e) == IF e = 0 THEN 1 ELSE b * Pow(b, e - 1)
RECURSIVE MinOf(_)
MinOf(s) == IF Len(s) = 1 THEN s[1]
            ELSE LET m == MinOf(Tail(s)) IN IF s[1] <= m THEN s[1] ELSE m

\* (a - b).seconds for datetimes a, b: the timedelta is normalised to
\* days + seconds with 0 <= seconds < 86400, and .seconds drops the days
Seconds(delta) == delta % SECONDS_PER_DAY

(***************************************************************************)
(* RateLimiter (lines 18-42)                                               *)
(***************************************************************************)
\* a mutant: the comparison of the filter inverted
Filtered_stale(reqs, tnow) ==
    SelectSeq(reqs, LAMBDA req_time : Seconds(tnow - req_time) >= time_window)

\* the list comprehension of lines 29-30
Filtered(reqs, tnow) ==
    SelectSeq(reqs, LAMBDA req_time : Seconds(tnow - req_time) < time_window)

\* a mutant: the limit test of line 32 off by one
can_make_request_le(reqs, tnow) ==
    LET kept == Filtered(reqs, tnow)
    IN  IF Len(kept) <= max_requests
        THEN [requests |-> Append(kept, tnow), ret |-> TRUE]
        ELSE [requests |-> kept, ret |-> FALSE]

\* the body of can_make_request under the lock (lines 27-35): the new list
\* and the value returned
can_make_request(reqs, tnow) ==
    LET kept == Filtered(reqs, tnow)
    IN  IF Len(kept) < max_requests
        THEN [requests |-> Append(kept, tnow), ret |-> TRUE]
        ELSE [requests |-> kept, ret |-> FALSE]

\* a mutant: the difference is not floored at zero
wait_time_unfloored(reqs, tnow) ==
    IF reqs = <<>> THEN 0
    ELSE time_window - Seconds(tnow - MinOf(reqs))

\* the body of wait_time under the lock (lines 39-42)
wait_time(reqs, tnow) ==
    IF reqs = <<>> THEN 0
    ELSE Max(0, time_window - Seconds(tnow - MinOf(reqs)))

(***************************************************************************)
(* The cache (lines 48-62)                                                 *)
(***************************************************************************)
\* a mutant: the comparison of line 55 inverted
Fresh_inverted(cached_time, tnow) == Seconds(tnow - cached_time) > CACHE_DURATION

\* line 55: the entry is taken as fresh
Fresh(cached_time, tnow) == Seconds(tnow - cached_time) < CACHE_DURATION

\* a mutant: an entry already there is kept (setdefault)
cache_data_keep(cache, ticker, data, tnow) ==
    IF cache[ticker] # NoEntry THEN cache
    ELSE [cache EXCEPT ![ticker] = Entry(tnow, data)]

\* line 62: ticker_cache[ticker] = (datetime.now(), data)
cache_data(cache, ticker, data, tnow) ==
    [cache EXCEPT ![ticker] = Entry(tnow, data)]

\* len(ticker_cache)
CacheLen(cache) == Cardinality({k \in Keys : cache[k] # NoEntry})

EmptyCache == [k \in Keys |-> NoEntry]

(***************************************************************************)
(* Backoff policy of get_ticker_data_with_backoff                          *)
(***************************************************************************)
\* line 147: "429" in str(e) or "Too Many Requests" in str(e)
Messages == {"429 Client Error", "Too Many Requests", "Connection reset"}
IsRateLimit(msg) == msg \in {"429 Client Error", "Too Many Requests"}

\* mutants: the exponent counts attempts from 1
TransientBackoff_from1(attempt) == Pow(BACKOFF_BASE, attempt + 1)
RateLimitBackoff_from1(attempt) == Pow(RATE_LIMIT_BASE, attempt + 1) + RATE_LIMIT_OFFSET

\* lines 116, 152: 2 ** attempt
TransientBackoff(attempt) == Pow(BACKOFF_BASE, attempt)
\* line 148: (3 ** attempt) + 5
RateLimitBackoff(attempt) == Pow(RATE_LIMIT_BASE, attempt) + RATE_LIMIT_OFFSET

(***************************************************************************)
(* Threads                                                                 *)
(***************************************************************************)
Idle ==
    [op |-> "none", pc |-> "idle", ticker |-> "", key |-> "",
     max_retries |-> 0, attempt |-> 0, can |-> FALSE, wait_time |-> 0,
     wake |-> 0, backoff_time |-> 0, pending |-> None, result |-> None,
     cache_size |-> 0,
     \* history of this invocation
     removed |-> 0, stamp |-> 0, ngate |-> 0, nup |-> 0, sleeps |-> <<>>, outcomes |-> <<>>,
     \* history: the oldest record when the rate limiter refused, and the
     \* clock when wait_time was computed
     oldest |-> 0, wait_at |-> 0]

Sleeping(r) == r.pc \in {"gate_sleep", "backoff", "pace", "pause"}
Running(r) == r.pc \notin {"idle", "done", "raised"}

Return(r, val) == [r EXCEPT !.pc = "done", !.result = val]

\* time.sleep(secs), then continue at pc
Sleep(r, why, secs, pc) ==
    [r EXCEPT !.pc = pc, !.wake = now + secs,
              !.sleeps = Append(@, [why |-> why, secs |-> secs])]

\* the response of a handler that has not answered yet
NoResponse ==
    [code |-> 0, status |-> "", error |-> "", data |-> <<>>,
     processed_count |-> 0, requested_count |-> 0,
     has_failed_tickers |-> FALSE, failed_tickers |-> <<>>]

\* the locals of get_stock_data (lines 171-183) before a request arrives
IdleBatch ==
    [pc |-> "idle", clean_tickers |-> <<>>, i |-> 0, rows |-> <<>>,
     failed_tickers |-> <<>>, response |-> NoResponse,
     \* history: the tickers whose fetch returned None
     exhausted |-> <<>>]

Start(log) ==
    /\ now = 0
    /\ ticks = 0
    /\ requests = <<>>
    /\ lock = "free"
    /\ ticker_cache = EmptyCache
    /\ th = [t \in Threads |-> Idle]
    /\ batch = IdleBatch
    /\ admitted = <<>>
    /\ issued = <<>>
    /\ lastPut = EmptyCache
    /\ lastGet = NoGet
    /\ ops = 0
    /\ logging = log

\* the histories admitted and issued are kept
InitLogged == Start(TRUE)
\* they are not
Init == Start(FALSE)

\* where a handler starts: the rate limiter's methods when called directly
\* (lines 25, 37), the cache check of lines 67, 96, line 285
StartPc(op) ==
    IF op = "can_make_request" THEN "gate"
    ELSE IF op = "wait_time" THEN "wait"
    ELSE "start"

\* a thread starts running handler op for ticker (a request arrives)
Call(t, op, ticker, key, bound) ==
    /\ ~Running(th[t])
    /\ ops < bound
    /\ ops' = ops + 1
    /\ th' = [th EXCEPT ![t] = [Idle EXCEPT !.op = op, !.pc = StartPc(op),
                                  !.ticker = ticker, !.key = key,
                                  !.max_retries = DEFAULT_MAX_RETRIES]]
    /\ UNCHANGED <<now, ticks, requests, lock, ticker_cache, batch,
                   admitted, issued, lastPut, lastGet, logging>>

\* a thread calls cache_data(key, data) directly (line 60)
CallPut(t, key, data, bound) ==
    /\ ~Running(th[t])
    /\ ops < bound
    /\ ops' = ops + 1
    /\ th' = [th EXCEPT ![t] = [Idle EXCEPT !.op = "cache_data", !.pc = "store",
                                  !.key = key, !.pending = data]]
    /\ UNCHANGED <<now, ticks, requests, lock, ticker_cache, batch,
                   admitted, issued, lastPut, lastGet, logging>>

\* the clock advances by d seconds
Tick(d, bound) ==
    /\ ticks < bound
    /\ ticks' = ticks + 1
    /\ now' = now + d
    /\ UNCHANGED <<requests, lock, ticker_cache, th, batch,
                   admitted, issued, lastPut, lastGet, ops, logging>>

\* the clock advances to the moment the next sleeping thread is due
WakeTimes == {th[t].wake : t \in {u \in Threads : Sleeping(th[u]) /\ th[u].wake > now}}
WakeAdvance ==
    /\ WakeTimes # {}
    /\ now' = CHOOSE w \in WakeTimes : \A v \in WakeTimes : w <= v
    /\ UNCHANGED <<ticks, requests, lock, ticker_cache, th, batch,
                   admitted, issued, lastPut, lastGet, ops, logging>>

(***************************************************************************)
(* RateLimiter.can_make_request and wait_time as steps of a thread         *)
(***************************************************************************)
\* history: the admissions are logged
LogAdmission(log, ret, tnow) == IF ret THEN Append(log, tnow) ELSE log

\* lines 26-35: take the lock, read the clock, filter, decide
GateEnter(t) ==
    /\ th[t].pc = "gate"
    /\ lock = "free"
    /\ LET r == can_make_request(requests, now)
       IN  /\ requests' = r.requests
           /\ admitted' = IF logging THEN LogAdmission(admitted, r.ret, now) ELSE admitted
           /\ th' = [th EXCEPT ![t].can = r.ret, ![t].pc = "gate_exit",
                               ![t].stamp = now, ![t].ngate = @ + 1,
                               ![t].oldest = IF r.ret THEN 0 ELSE MinOf(r.requests)]
    /\ lock' = t
    /\ UNCHANGED <<now, ticks, ticker_cache, batch, issued, lastPut, lastGet, ops, logging>>

\* a mutant: the lock is acquired without "with" and not released on return
GateExit_keep(t) ==
    /\ th[t].pc = "gate_exit"
    /\ lock = t
    /\ th' = [th EXCEPT ![t] =
                IF th[t].op = "can_make_request" THEN Return(@, Bool(@.can))
                ELSE IF @.can THEN [@ EXCEPT !.pc = "upstream"]
                ELSE [@ EXCEPT !.pc = "wait"]]
    /\ UNCHANGED <<now, ticks, requests, lock, ticker_cache, batch,
                   admitted, issued, lastPut, lastGet, ops, logging>>

\* leaving the with block of line 26, and lines 71, 101: the branch on the result
GateExit(t) ==
    /\ th[t].pc = "gate_exit"
    /\ lock = t
    /\ lock' = "free"
    /\ th' = [th EXCEPT ![t] =
                IF th[t].op = "can_make_request" THEN Return(@, Bool(@.can))
                ELSE IF @.can THEN [@ EXCEPT !.pc = "upstream"]
                ELSE [@ EXCEPT !.pc = "wait"]]
    /\ UNCHANGED <<now, ticks, requests, ticker_cache, batch,
                   admitted, issued, lastPut, lastGet, ops, logging>>

\* lines 38-42: take the lock, compute the wait
WaitEnter(t) ==
    /\ th[t].pc = "wait"
    /\ lock = "free"
    /\ lock' = t
    /\ th' = [th EXCEPT ![t].wait_time = wait_time(requests, now),
                        ![t].wait_at = now,
                        ![t].pc = "wait_exit"]
    /\ UNCHANGED <<now, ticks, requests, ticker_cache, batch,
                   admitted, issued, lastPut, lastGet, ops, logging>>

\* leaving the with block of line 38, and lines 74, 104: time.sleep(wait_time + 1)
WaitExit(t) ==
    /\ th[t].pc = "wait_exit"
    /\ lock = t
    /\ lock' = "free"
    /\ th' = [th EXCEPT ![t] =
                IF th[t].op = "wait_time" THEN Return(@, None)
                ELSE Sleep(@, "gate", @.wait_time + 1, "gate_sleep")]
    /\ UNCHANGED <<now, ticks, requests, ticker_cache, batch,
                   admitted, issued, lastPut, lastGet, ops, logging>>

(***************************************************************************)
(* get_cached_data (lines 51-58) as steps of a thread.  The cache has no   *)
(* lock: the membership test of line 53 and the read of line 54 are two    *)
(* steps, and another thread's clear() may run between them.               *)
(***************************************************************************)
\* what the caller does with cached = None: lines 71, 100-101, or the
\* return of get_cached_data itself
Miss(r) ==
    IF r.op = "get_cached_data" THEN Return(r, None)
    ELSE IF r.op = "fetch" /\ ~(r.attempt < r.max_retries) THEN Return(r, None)
    ELSE [r EXCEPT !.pc = "gate"]

\* line 53: if ticker in ticker_cache
CacheCheck(t) ==
    /\ th[t].pc = "start"
    /\ th[t].op \in {"fetch", "validate", "get_cached_data"}
    /\ th' = [th EXCEPT ![t] =
                IF ticker_cache[@.key] # NoEntry
                THEN [@ EXCEPT !.pc = "cache_read"] ELSE Miss(@)]
    /\ lastGet' = IF ticker_cache[th[t].key] # NoEntry THEN lastGet
                  ELSE [kind |-> "get", thread |-> t, key |-> th[t].key,
                        ret |-> None, at |-> now, put |-> lastPut[th[t].key]]
    /\ UNCHANGED <<now, ticks, requests, lock, ticker_cache, batch,
                   admitted, issued, lastPut, ops, logging>>

\* a mutant: an expired entry is deleted when it is read
CacheRead_evict(t) ==
    /\ th[t].pc = "cache_read"
    /\ LET e == ticker_cache[th[t].key]
           hit == e # NoEntry /\ Fresh(e.time, now) /\ e.data # None
       IN  /\ th' = [th EXCEPT ![t] =
                       IF e = NoEntry THEN [@ EXCEPT !.pc = "raised"]
                       ELSE IF hit THEN Return(@, e.data)
                       ELSE Miss(@)]
           /\ ticker_cache' = IF e # NoEntry /\ ~Fresh(e.time, now)
                               THEN [ticker_cache EXCEPT ![th[t].key] = NoEntry]
                               ELSE ticker_cache
           /\ lastGet' = IF e = NoEntry THEN lastGet
                         ELSE [kind |-> "get", thread |-> t, key |-> th[t].key,
                               ret |-> IF Fresh(e.time, now) THEN e.data ELSE None,
                               at |-> now, put |-> lastPut[th[t].key]]
    /\ UNCHANGED <<now, ticks, requests, lock, batch,
                   admitted, issued, lastPut, ops, logging>>

\* lines 54-58, and lines 68-69, 97-98: return cached if it is not None
CacheRead(t) ==
    /\ th[t].pc = "cache_read"
    /\ LET e == ticker_cache[th[t].key]
           hit == e # NoEntry /\ Fresh(e.time, now) /\ e.data # None
       IN  /\ th' = [th EXCEPT ![t] =
                       IF e = NoEntry THEN [@ EXCEPT !.pc = "raised"]  \* KeyError
                       ELSE IF hit THEN Return(@, e.data)
                       ELSE Miss(@)]
           /\ lastGet' = IF e = NoEntry THEN lastGet
                         ELSE [kind |-> "get", thread |-> t, key |-> th[t].key,
                               ret |-> IF Fresh(e.time, now) THEN e.data ELSE None,
                               at |-> now, put |-> lastPut[th[t].key]]
    /\ UNCHANGED <<now, ticks, requests, lock, ticker_cache, batch,
                   admitted, issued, lastPut, ops, logging>>

(***************************************************************************)
(* The upstream call and what follows it                                   *)
(***************************************************************************)
\* what yfinance may answer to stock.history (line 112) and stock.fast_info
\* (line 122): a table (empty, with rows, or with rows but without the
\* expected columns) and the metadata or its failure; or an exception
Histories == {"empty", "rows", "badcols"}
Infos == {"info", "raises"}
FetchAnswers(hists) ==
    [kind : {"table"}, hist : hists, info : Infos]
        \cup [kind : {"exception"}, msg : Messages]
\* what stock.fast_info answers to the validator (lines 77-80)
ValidateAnswers ==
    [kind : {"fast_info"}, valid : BOOLEAN] \cup [kind : {"exception"}, msg : Messages]

\* lines 121-130: the metadata, or {} when fast_info raised
AdditionalInfo(info) == IF info = "raises" THEN "{}" ELSE "fast_info"

\* the branch of the try block an answer takes: line 114 (empty), line 147
\* (rate-limit message), line 151 (any other exception), else lines 120-143
Classify(a) ==
    IF a.kind = "exception"
    THEN (IF IsRateLimit(a.msg) THEN "rate_limited" ELSE "error")
    ELSE IF a.hist = "empty" THEN "empty" ELSE "success"

\* lines 114-118 and 145-153: the sleep after a failed attempt
BackoffTime(class, attempt) ==
    IF class = "rate_limited" THEN RateLimitBackoff(attempt)
    ELSE TransientBackoff(attempt)

\* history: an empty table and an exception without a rate-limit message
\* are both transient failures
Kind(class) == IF class \in {"empty", "error"} THEN "transient" ELSE class

\* a mutant: the handler of line 145 catches rate-limit errors only
AfterFetch_uncaught(r, a) ==
    LET class == Classify(a)
        r1 == [r EXCEPT !.nup = @ + 1, !.outcomes = Append(@, Kind(class))]
    IN  IF class = "success"
        THEN [r1 EXCEPT !.pending = Result(a.hist, AdditionalInfo(a.info)),
                        !.pc = "store"]
        ELSE IF class = "error" THEN [r1 EXCEPT !.pc = "raised"]
        ELSE Sleep([r1 EXCEPT !.backoff_time = BackoffTime(class, r.attempt)],
                   "backoff", BackoffTime(class, r.attempt), "backoff")

\* lines 106-153: one pass of the try block of the retry loop, given the answer
AfterFetch(r, a) ==
    LET class == Classify(a)
        r1 == [r EXCEPT !.nup = @ + 1, !.outcomes = Append(@, Kind(class))]
    IN  IF class = "success"
        THEN [r1 EXCEPT !.pending = Result(a.hist, AdditionalInfo(a.info)),
                        !.pc = "store"]
        ELSE Sleep([r1 EXCEPT !.backoff_time = BackoffTime(class, r.attempt)],
                   "backoff", BackoffTime(class, r.attempt), "backoff")

\* lines 76-91: the try block of validate_ticker_with_delay, given the answer
AfterValidate(r, a) ==
    LET r1 == [r EXCEPT !.nup = @ + 1, !.outcomes = Append(@, a.kind)]
    IN  IF a.kind = "exception" THEN Return(r1, Bool(FALSE))
        ELSE [r1 EXCEPT !.pending = Bool(a.valid), !.pc = "store"]

\* lines 109-112 (77-79): the call goes out and the answer comes back
Upstream(t, a) ==
    /\ th[t].pc = "upstream"
    /\ th' = [th EXCEPT ![t] = IF @.op = "fetch" THEN AfterFetch(@, a)
                               ELSE AfterValidate(@, a)]
    /\ issued' = IF logging THEN Append(issued, [at |-> now, adm |-> th[t].can,
                                                  stamp |-> th[t].stamp])
                  ELSE issued
    /\ UNCHANGED <<now, ticks, requests, lock, ticker_cache, batch,
                   admitted, lastPut, lastGet, ops, logging>>

\* a mutant: the entry of a key is written only when the key has none
Store_setdefault(t) ==
    /\ th[t].pc = "store"
    /\ ticker_cache' = IF ticker_cache[th[t].key] # NoEntry THEN ticker_cache
                       ELSE cache_data(ticker_cache, th[t].key, th[t].pending, now)
    /\ lastPut' = [lastPut EXCEPT ![th[t].key] = Entry(now, th[t].pending)]
    /\ th' = [th EXCEPT ![t] =
                IF @.op = "cache_data" THEN Return(@, None)
                ELSE Sleep(@, "pace", IF @.op = "fetch" THEN SUCCESS_PAUSE ELSE 0, "pace")]
    /\ UNCHANGED <<now, ticks, requests, lock, batch, admitted, issued, lastGet, ops, logging>>

\* lines 138-141 (83-86): cache_data, then the pause (0.5 s rounds to no
\* whole second)
Store(t) ==
    /\ th[t].pc = "store"
    /\ ticker_cache' = cache_data(ticker_cache, th[t].key, th[t].pending, now)
    /\ lastPut' = [lastPut EXCEPT ![th[t].key] = Entry(now, th[t].pending)]
    /\ th' = [th EXCEPT ![t] =
                IF @.op = "cache_data" THEN Return(@, None)
                ELSE Sleep(@, "pace", IF @.op = "fetch" THEN SUCCESS_PAUSE ELSE 0, "pace")]
    /\ UNCHANGED <<now, ticks, requests, lock, batch, admitted, issued, lastGet, ops, logging>>

\* line 100: the next pass of the loop, or line 155 when the range is used up
NextAttempt(r) ==
    LET r1 == [r EXCEPT !.attempt = @ + 1]
    IN  IF r1.attempt < r1.max_retries THEN [r1 EXCEPT !.pc = "gate"]
        ELSE Return(r1, None)

\* a sleep ends: after the gate wait the call goes out (lines 104-112), after
\* a backoff the loop goes on (lines 118, 150, 153), after the pause the
\* result is returned (lines 88, 143)
Wake(t) ==
    /\ th[t].pc \in {"gate_sleep", "backoff", "pace"}
    /\ now >= th[t].wake
    /\ th' = [th EXCEPT ![t] =
                IF @.pc = "gate_sleep" THEN [@ EXCEPT !.pc = "upstream"]
                ELSE IF @.pc = "backoff" THEN NextAttempt(@)
                ELSE Return(@, @.pending)]
    /\ UNCHANGED <<now, ticks, requests, lock, ticker_cache, batch,
                   admitted, issued, lastPut, lastGet, ops, logging>>

(***************************************************************************)
(* clear_cache (lines 282-290)                                             *)
(***************************************************************************)
\* line 285: cache_size = len(ticker_cache)
ClearLen(t) ==
    /\ th[t].pc = "start" /\ th[t].op = "clear_cache"
    /\ th' = [th EXCEPT ![t].cache_size = CacheLen(ticker_cache), ![t].pc = "clear"]
    /\ UNCHANGED <<now, ticks, requests, lock, ticker_cache, batch,
                   admitted, issued, lastPut, lastGet, ops, logging>>

\* lines 286-290: ticker_cache.clear(), and the message with cache_size
ClearAll(t) ==
    /\ th[t].pc = "clear"
    /\ ticker_cache' = EmptyCache
    /\ lastPut' = EmptyCache
    /\ th' = [th EXCEPT ![t] = Return([@ EXCEPT !.removed = CacheLen(ticker_cache)],
                                      [kind |-> "cleared", count |-> @.cache_size])]
    /\ UNCHANGED <<now, ticks, requests, lock, batch, admitted, issued, lastGet, ops, logging>>

(***************************************************************************)
(* SpecGate: threads calling the rate limiter directly                     *)
(***************************************************************************)
GateOps == {"can_make_request", "wait_time"}

NextGate ==
    \/ \E t \in Threads, op \in GateOps : Call(t, op, "", "", MaxGateCalls)
    \/ \E t \in Threads : GateEnter(t)
    \/ \E t \in Threads : GateExit(t)
    \/ \E t \in Threads : WaitEnter(t)
    \/ \E t \in Threads : WaitExit(t)
    \/ \E d \in GateDeltas : Tick(d, MaxGateTicks)

SpecGate == InitLogged /\ [][NextGate]_vars

\* number of timestamps of log inside the trailing window that ends at t
WindowCount(log, t) ==
    Cardinality({i \in DOMAIN log : log[i] <= t /\ t - log[i] < time_window})

\* C1: in every trailing time_window-second interval (one ending at an
\* admission, or now) at most max_requests calls of can_make_request
\* returned True.
C1_AdmissionsBounded ==
    \A t \in {admitted[i] : i \in DOMAIN admitted} \cup {now} :
        WindowCount(admitted, t) <= max_requests

\* the window is full again after old admissions left it, and a caller was refused
C1_Witness ==
    /\ Len(admitted) > max_requests
    /\ WindowCount(admitted, now) = max_requests
    /\ \E t \in Threads : th[t].op = "can_make_request" /\ th[t].pc = "done"
                          /\ th[t].result = Bool(FALSE)

(***************************************************************************)
(* Spec: a thread serving fetches and validations while another clears the *)
(* cache or calls the rate limiter                                         *)
(***************************************************************************)
Fetcher == "t1"
Other == "t2"
FetchDeltas == {300}
FetchTickers == {"AAA"}

Next ==
    \/ \E k \in FetchTickers : Call(Fetcher, "fetch", k, k, MaxOps)
    \/ \E k \in FetchTickers : Call(Fetcher, "validate", k, ValidateKey(k), MaxOps)
    \/ Call(Other, "clear_cache", "", "", MaxOps)
    \/ Call(Other, "can_make_request", "", "", MaxOps)
    \/ CacheCheck(Fetcher)
    \/ CacheRead(Fetcher)
    \/ \E t \in Threads : GateEnter(t)
    \/ \E t \in Threads : GateExit(t)
    \/ WaitEnter(Fetcher)
    \/ WaitExit(Fetcher)
    \/ \E a \in FetchAnswers({"empty", "rows"}) : th[Fetcher].op = "fetch" /\ Upstream(Fetcher, a)
    \/ \E a \in ValidateAnswers : th[Fetcher].op = "validate" /\ Upstream(Fetcher, a)
    \/ Store(Fetcher)
    \/ Wake(Fetcher)
    \/ ClearLen(Other)
    \/ ClearAll(Other)
    \/ \E d \in FetchDeltas : Tick(d, MaxTicks)
    \/ WakeAdvance

Spec == Init /\ [][Next]_vars

\* the entry of the key of thread t is there and less than CACHE_DURATION
\* seconds old
HoldsFresh(t) ==
    LET e == ticker_cache[th[t].key]
    IN  e # NoEntry /\ e.time <= now /\ now - e.time < CACHE_DURATION

\* C3: a step of get_ticker_data_with_backoff(key) taken at its cache check
\* while the cache holds a fresh entry for key calls neither the rate
\* limiter nor the upstream, does not sleep, does not enter the retry loop,
\* leaves rate_limiter.requests unchanged, and ends by returning the cached
\* value.
C3_CacheHitBypassesGate ==
    [][\A t \in Threads :
          (/\ th[t].op = "fetch"
           /\ th[t].pc \in {"start", "cache_read"}
           /\ th'[t] # th[t]
           /\ HoldsFresh(t))
          => /\ requests' = requests
             /\ lock' = lock
             /\ th'[t].ngate = 0 /\ th'[t].nup = 0 /\ th'[t].sleeps = <<>>
             /\ th'[t].attempt = 0
             /\ th'[t].pc = IF th[t].pc = "start" THEN "cache_read" ELSE "done"
             /\ th[t].pc = "cache_read"
                    => th'[t].result = ticker_cache[th[t].key].data]_vars

\* a fetch returned the cached value of an earlier fetch
C3_Witness ==
    \E t \in Threads :
        /\ th[t].op = "fetch" /\ th[t].pc = "done"
        /\ th[t].result.kind = "result" /\ th[t].nup = 0 /\ th[t].ngate = 0
        /\ lastGet.kind = "get" /\ lastGet.thread = t /\ lastGet.ret = th[t].result
        /\ requests # <<>>

\* C6 (the count): the count clear_cache reports is the number of entries
\* it removed.
C6_ClearCountExact ==
    \A t \in Threads :
        (th[t].op = "clear_cache" /\ th[t].pc = "done")
            => th[t].result.count = th[t].removed

\* the sleeps of an invocation that follow a failed attempt
BackoffSleeps(r) == SelectSeq(r.sleeps, LAMBDA z : z.why = "backoff")

\* the first attempt failed as transient and the second succeeded
TransientThenSuccess(r) ==
    /\ r.op = "fetch" /\ Len(r.outcomes) >= 2
    /\ r.outcomes[1] = "transient" /\ r.outcomes[2] = "success"

\* C7 as claimed: the sleep between a transient first attempt and a
\* successful second attempt is 2^1 = 2 seconds.
C7_Claimed ==
    \A t \in Threads :
        TransientThenSuccess(th[t]) => BackoffSleeps(th[t])[1].secs = Pow(BACKOFF_BASE, 1)

\* C7 as amended: that sleep is 2^0 = 1 second (attempts count from 0).
C7_FirstTransientBackoff ==
    \A t \in Threads :
        TransientThenSuccess(th[t])
            => /\ Len(BackoffSleeps(th[t])) = 1
               /\ BackoffSleeps(th[t])[1].secs = 1

C7_Witness ==
    \E t \in Threads : TransientThenSuccess(th[t]) /\ th[t].pc = "done"
                       /\ th[t].result.kind = "result"

\* the first attempt raised an exception with a rate-limit message
FirstRateLimited(r) ==
    r.op = "fetch" /\ Len(r.outcomes) >= 1 /\ r.outcomes[1] = "rate_limited"

\* C8 as claimed: the sleep after a rate-limited first attempt is
\* 3^1 + 5 = 8 seconds.
C8_Claimed ==
    \A t \in Threads :
        FirstRateLimited(th[t])
            => BackoffSleeps(th[t])[1].secs = Pow(RATE_LIMIT_BASE, 1) + RATE_LIMIT_OFFSET

\* C8 as amended: that sleep is 3^0 + 5 = 6 seconds.
C8_FirstRateLimitBackoff ==
    \A t \in Threads :
        FirstRateLimited(th[t])
            => /\ Len(BackoffSleeps(th[t])) >= 1
               /\ BackoffSleeps(th[t])[1].secs = 6

\* the second attempt is under way after a rate-limited first one
C8_Witness ==
    \E t \in Threads : FirstRateLimited(th[t]) /\ th[t].attempt = 1
                       /\ th[t].pc = "upstream"

\* number of failed attempts of an invocation
Failures(r) == Cardinality({i \in DOMAIN r.outcomes : r.outcomes[i] # "success"})

\* C10: no answer of the upstream makes get_ticker_data_with_backoff raise:
\* once an upstream call was made the invocation is never in a raised
\* state; what it returns is a payload or None, and None exactly when
\* max_retries attempts failed.
C10_NoFaultEscapes ==
    \A t \in Threads :
        th[t].op = "fetch"
            => /\ (th[t].pc = "raised" => th[t].nup = 0)
               /\ th[t].pc = "done"
                    => /\ th[t].result = None \/ th[t].result.kind = "result"
                       /\ th[t].result = None <=> Failures(th[t]) = th[t].max_retries

\* every kind of failure was seen in one invocation, which returned None
C10_Witness ==
    \E t \in Threads :
        /\ th[t].op = "fetch" /\ th[t].pc = "done" /\ th[t].result = None
        /\ th[t].outcomes = <<"transient", "rate_limited", "transient">>

\* a fetch returned a payload whose metadata could not be read
C10_WitnessPayload ==
    \E t \in Threads :
        /\ th[t].op = "fetch" /\ th[t].pc = "done"
        /\ th[t].result = Result("rows", "{}") /\ Failures(th[t]) = 2

(***************************************************************************)
(* SpecCache: threads calling the cache directly                           *)
(***************************************************************************)
CacheKeys == {"AAA", "validate_AAA"}
Values == {Bool(TRUE), Result("rows", "fast_info")}

NextCache ==
    \/ \E t \in Threads, k \in CacheKeys, v \in Values : CallPut(t, k, v, MaxCacheOps)
    \/ \E t \in Threads, k \in CacheKeys : Call(t, "get_cached_data", k, k, MaxCacheOps)
    \/ \E t \in Threads : Call(t, "clear_cache", "", "", MaxCacheOps)
    \/ \E t \in Threads : Store(t)
    \/ \E t \in Threads : CacheCheck(t)
    \/ \E t \in Threads : CacheRead(t)
    \/ \E t \in Threads : ClearLen(t)
    \/ \E t \in Threads : ClearAll(t)
    \/ \E d \in CacheDeltas : Tick(d, MaxCacheTicks)

SpecCache == Init /\ [][NextCache]_vars

\* the last get_cached_data found a put of its key not yet cleared
GetAfterPut == lastGet.kind = "get" /\ lastGet.put # NoEntry
\* seconds from that put to the get
Elapsed == lastGet.at - lastGet.put.time

\* C4: get_cached_data(k) returns nothing whenever at least CACHE_DURATION
\* seconds have passed since the last cache_data(k, _), however many.
C4_ExpiredReturnsNothing ==
    (GetAfterPut /\ Elapsed >= CACHE_DURATION) => lastGet.ret = None

\* C5: cache_data(k, v) followed by get_cached_data(k) less than
\* CACHE_DURATION seconds later, with no cache_data(k, _) or clear between,
\* returns v.
C5_PutThenGet ==
    (GetAfterPut /\ Elapsed < CACHE_DURATION /\ lastGet.put.data # None)
        => lastGet.ret = lastGet.put.data

\* a get of a key that was put twice, 299 seconds after the second put
C5_Witness ==
    /\ GetAfterPut /\ Elapsed = CACHE_DURATION - 1
    /\ lastGet.ret = lastGet.put.data
    /\ \E t \in Threads : th[t].op = "get_cached_data" /\ th[t].pc = "done"
                          /\ th[t].result = lastGet.ret

(***************************************************************************)
(* SpecRate: threads serving fetches and validations concurrently, with    *)
(* the admissions and the upstream calls logged                            *)
(***************************************************************************)
\* the upstream is down for the history calls, and answers or fails for the
\* validations
RateFetchAnswers == {[kind |-> "exception", msg |-> "Connection reset"]}
RateValidateAnswers ==
    {[kind |-> "fast_info", valid |-> TRUE],
     [kind |-> "exception", msg |-> "Connection reset"]}

\* the steps of a handler between two sleeps take no time on the scale of the
\* sleeps (whole seconds): the clock moves only while every running thread is
\* asleep
Busy(r) == Running(r) /\ ~Sleeping(r)
QuietWakeAdvance ==
    /\ \A t \in Threads : ~Busy(th[t])
    /\ WakeAdvance

NextRate ==
    \/ \E t \in Threads, k \in FetchTickers : Call(t, "fetch", k, k, MaxRateOps)
    \/ \E t \in Threads, k \in FetchTickers :
          Call(t, "validate", k, ValidateKey(k), MaxRateOps)
    \/ \E t \in Threads : CacheCheck(t)
    \/ \E t \in Threads : CacheRead(t)
    \/ \E t \in Threads : GateEnter(t)
    \/ \E t \in Threads : GateExit(t)
    \/ \E t \in Threads : WaitEnter(t)
    \/ \E t \in Threads : WaitExit(t)
    \/ \E t \in Threads : \E a \in RateFetchAnswers :
          th[t].op = "fetch" /\ Upstream(t, a)
    \/ \E t \in Threads : \E a \in RateValidateAnswers :
          th[t].op = "validate" /\ Upstream(t, a)
    \/ \E t \in Threads : Store(t)
    \/ \E t \in Threads : Wake(t)
    \/ QuietWakeAdvance

SpecRate == InitLogged /\ [][NextRate]_vars

\* number of upstream calls issued inside the trailing window that ends at t
IssuedInWindow(t) ==
    Cardinality({i \in DOMAIN issued : issued[i].at <= t /\ t - issued[i].at < time_window})

\* C2 as claimed: in every trailing time_window-second interval at most
\* max_requests upstream calls are issued, those issued after a refusal of
\* the rate limiter and the wait included.
C2_Claimed ==
    \A i \in DOMAIN issued : IssuedInWindow(issued[i].at) <= max_requests

\* the upstream calls that followed an admission, by the time of the admission
AdmittedStamps == {i \in DOMAIN issued : issued[i].adm}
AdmittedInWindow(t) ==
    Cardinality({i \in AdmittedStamps :
                    issued[i].stamp <= t /\ t - issued[i].stamp < time_window})

\* C2 as amended: in every trailing time_window-second interval at most
\* max_requests of the upstream calls issued were admitted by the rate
\* limiter in it; the calls issued after a refusal and the wait are not
\* counted by the rate limiter.
C2_AdmittedCallsBounded ==
    \A i \in AdmittedStamps : AdmittedInWindow(issued[i].stamp) <= max_requests

\* a call went out after a refusal while the window of admitted calls was full
C2_Witness ==
    \E i \in DOMAIN issued :
        /\ ~issued[i].adm
        /\ \E j \in AdmittedStamps : AdmittedInWindow(issued[j].stamp) = max_requests

(***************************************************************************)
(* SpecBatch: one request to get_stock_data (lines 157-258), served by one *)
(* thread                                                                  *)
(***************************************************************************)
\* the strings a client may send: a ticker, one to be stripped and put in
\* upper case, and a blank one
RawTickers == {"AAA", " bbb ", ""}
\* line 171: ticker.strip().upper()
StripUpper(raw) ==
    CASE raw = " bbb " -> "BBB"
      [] raw = "" -> ""
      [] OTHER -> raw
\* line 171: the comprehension drops what is blank after strip()
RECURSIVE Clean(_)
Clean(tickers) ==
    IF tickers = <<>> THEN <<>>
    ELSE IF StripUpper(Head(tickers)) = "" THEN Clean(Tail(tickers))
    ELSE <<StripUpper(Head(tickers))>> \o Clean(Tail(tickers))

\* request bodies: without "tickers", or with a list of up to MaxBatch
\* strings, or with a list of one more than MAX_TICKERS
RawLists ==
    UNION {[1..n -> RawTickers] : n \in 0..MaxBatch}
        \cup {[n \in 1..(MAX_TICKERS + 1) |-> "AAA"]}
Contents ==
    {[has_tickers |-> FALSE, tickers |-> <<>>]}
        \cup {[has_tickers |-> TRUE, tickers |-> l] : l \in RawLists}

\* what yfinance answers during a batch: a table, the metadata available
BatchAnswers == {a \in FetchAnswers(Histories) : a.kind = "table" /\ a.info = "info"}

Error(code, msg) == [NoResponse EXCEPT !.code = code, !.error = msg]

\* lines 159-183: the body is read and validated
BatchRequest(content) ==
    /\ batch.pc = "idle"
    /\ LET clean_tickers == Clean(content.tickers)
       IN  batch' =
             IF ~content.has_tickers
             THEN [batch EXCEPT !.pc = "responded",
                                !.response = Error(400, "Missing 'tickers' in request body")]
             ELSE IF clean_tickers = <<>>
             THEN [batch EXCEPT !.pc = "responded",
                                !.response = Error(400, "No valid tickers provided")]
             ELSE IF Len(clean_tickers) > MAX_TICKERS
             THEN [batch EXCEPT !.pc = "responded",
                                !.response = Error(400, "Maximum 5 tickers per request")]
             ELSE [batch EXCEPT !.pc = "loop", !.clean_tickers = clean_tickers]
    /\ UNCHANGED <<now, ticks, requests, lock, ticker_cache, th,
                   admitted, issued, lastPut, lastGet, ops, logging>>

\* line 192: get_ticker_data_with_backoff(ticker) is entered
StartFetch(ticker) ==
    [Idle EXCEPT !.op = "fetch", !.pc = "start", !.ticker = ticker,
                 !.key = ticker, !.max_retries = DEFAULT_MAX_RETRIES]

\* lines 185-192: the next ticker of the loop, after a pause for all but the
\* first
BatchIter ==
    /\ batch.pc = "loop"
    /\ batch.i < Len(batch.clean_tickers)
    /\ IF batch.i > 0
       THEN /\ th' = [th EXCEPT ![BatchThread] =
                        Sleep([Idle EXCEPT !.op = "get_stock_data"],
                              "pause", INTER_TICKER_PAUSE, "pause")]
            /\ batch' = [batch EXCEPT !.pc = "pausing"]
       ELSE /\ th' = [th EXCEPT ![BatchThread] =
                        StartFetch(batch.clean_tickers[batch.i + 1])]
            /\ batch' = [batch EXCEPT !.pc = "fetching"]
    /\ UNCHANGED <<now, ticks, requests, lock, ticker_cache,
                   admitted, issued, lastPut, lastGet, ops, logging>>

\* lines 190-192: the pause is over
BatchPaused ==
    /\ batch.pc = "pausing"
    /\ th[BatchThread].pc = "pause"
    /\ now >= th[BatchThread].wake
    /\ th' = [th EXCEPT ![BatchThread] = StartFetch(batch.clean_tickers[batch.i + 1])]
    /\ batch' = [batch EXCEPT !.pc = "fetching"]
    /\ UNCHANGED <<now, ticks, requests, lock, ticker_cache,
                   admitted, issued, lastPut, lastGet, ops, logging>>

\* lines 206-228: the row of a ticker; reading the columns of a table that
\* lacks them raises
RowRaises(ticker_data) == ticker_data.history = "badcols"
Row(ticker) == [Symbol |-> ticker, cached |-> ticker_cache[ticker] # NoEntry]

\* a mutant: the first ticker without data ends the request
BatchCollect_abort ==
    /\ batch.pc = "fetching"
    /\ th[BatchThread].pc \in {"done", "raised"}
    /\ LET ticker == batch.clean_tickers[batch.i + 1]
           ticker_data == th[BatchThread].result
       IN  batch' =
             IF th[BatchThread].pc = "raised" \/ ticker_data = None
             THEN [batch EXCEPT !.pc = "responded",
                                !.failed_tickers = Append(@, ticker),
                                !.response = [NoResponse EXCEPT
                                                !.code = 404, !.status = "error",
                                                !.has_failed_tickers = TRUE,
                                                !.failed_tickers =
                                                    Append(batch.failed_tickers, ticker)]]
             ELSE IF ticker_data.history \in {"empty", "badcols"}
             THEN [batch EXCEPT !.pc = "loop", !.i = @ + 1,
                                !.failed_tickers = Append(@, ticker)]
             ELSE [batch EXCEPT !.pc = "loop", !.i = @ + 1,
                                !.rows = Append(@, [Symbol |-> ticker,
                                                    cached |-> ticker_cache[ticker] # NoEntry])]
    /\ UNCHANGED <<now, ticks, requests, lock, ticker_cache, th,
                   admitted, issued, lastPut, lastGet, ops, logging>>

\* lines 192-232: what the loop does with the value the fetch returned; an
\* exception out of the fetch reaches the handler of line 256
BatchCollect ==
    /\ batch.pc = "fetching"
    /\ th[BatchThread].pc \in {"done", "raised"}
    /\ LET ticker == batch.clean_tickers[batch.i + 1]
           ticker_data == th[BatchThread].result
           next == [batch EXCEPT !.pc = "loop", !.i = @ + 1]
       IN  batch' =
             IF th[BatchThread].pc = "raised"
             THEN [batch EXCEPT !.pc = "responded",
                                !.response = [Error(500, "Server error")
                                                EXCEPT !.status = "error"]]
             ELSE IF ticker_data = None
             THEN [next EXCEPT !.failed_tickers = Append(@, ticker),
                               !.exhausted = Append(@, ticker)]
             ELSE IF ticker_data.history = "empty"
             THEN [next EXCEPT !.failed_tickers = Append(@, ticker)]
             ELSE IF RowRaises(ticker_data)
             THEN [next EXCEPT !.failed_tickers = Append(@, ticker)]
             ELSE [next EXCEPT !.rows = Append(@, Row(ticker))]
    /\ UNCHANGED <<now, ticks, requests, lock, ticker_cache, th,
                   admitted, issued, lastPut, lastGet, ops, logging>>

\* line 235: "success" if rows else "partial_success" if failed_tickers else "error"
Status(rows, failed_tickers) ==
    IF rows # <<>> THEN "success"
    ELSE IF failed_tickers # <<>> THEN "partial_success"
    ELSE "error"

\* lines 234-254: the response after the loop
BatchRespond ==
    /\ batch.pc = "loop"
    /\ batch.i = Len(batch.clean_tickers)
    /\ LET response_data ==
             [NoResponse EXCEPT
                !.code = 200,
                !.status = Status(batch.rows, batch.failed_tickers),
                !.data = batch.rows,
                !.processed_count = Len(batch.rows),
                !.requested_count = Len(batch.clean_tickers),
                !.has_failed_tickers = batch.failed_tickers # <<>>,
                !.failed_tickers = batch.failed_tickers]
           not_found ==
             [NoResponse EXCEPT
                !.code = 404, !.status = "error",
                !.error = "No valid data found for any ticker",
                !.has_failed_tickers = TRUE,
                !.failed_tickers = batch.failed_tickers]
       IN  batch' = [batch EXCEPT !.pc = "responded",
                                  !.response = IF batch.rows = <<>> THEN not_found
                                               ELSE response_data]
    /\ UNCHANGED <<now, ticks, requests, lock, ticker_cache, th,
                   admitted, issued, lastPut, lastGet, ops, logging>>

NextBatch ==
    \/ \E content \in Contents : BatchRequest(content)
    \/ BatchIter
    \/ BatchPaused
    \/ CacheCheck(BatchThread)
    \/ CacheRead(BatchThread)
    \/ GateEnter(BatchThread)
    \/ GateExit(BatchThread)
    \/ WaitEnter(BatchThread)
    \/ WaitExit(BatchThread)
    \/ \E a \in BatchAnswers : Upstream(BatchThread, a)
    \/ Store(BatchThread)
    \/ Wake(BatchThread)
    \/ BatchCollect
    \/ BatchRespond
    \/ WakeAdvance

SpecBatch == Init /\ [][NextBatch]_vars

\* the tickers of a sequence
Range(s) == {s[i] : i \in DOMAIN s}

\* a batch was answered in which a ticker got its row and another used up
\* its retries
MixedBatch ==
    /\ batch.pc = "responded"
    /\ batch.rows # <<>>
    /\ batch.exhausted # <<>>

\* C9: a batch in which at least one ticker succeeds and at least one uses up
\* its retries is answered with one row per successful ticker, with exactly
\* the failed tickers in failed_tickers, and with the status of a partial
\* success, which is not the status of a batch in which every ticker
\* succeeded.
C9_PartialSuccessStatus ==
    MixedBatch =>
        /\ Len(batch.response.data) + Len(batch.response.failed_tickers)
              = Len(batch.clean_tickers)
        /\ Range(batch.exhausted) \subseteq Range(batch.response.failed_tickers)
        /\ batch.response.status = "partial_success"

\* what the code does in that case: the rows and the failed tickers are as
\* described, and the status is that of a full success
C9_MixedBatchReportsSuccess ==
    MixedBatch =>
        /\ Len(batch.response.data) + Len(batch.response.failed_tickers)
              = Len(batch.clean_tickers)
        /\ Range(batch.exhausted) \subseteq Range(batch.response.failed_tickers)
        /\ batch.response.status = "success"

C9_Witness == MixedBatch /\ Len(batch.clean_tickers) = MaxBatch

\* the request passed the validation of lines 159-178 and was answered
LoopAnswered == batch.pc = "responded" /\ batch.response.code # 400

\* the answer of lines 247-252
AggregateFailure ==
    /\ batch.response.code = 404
    /\ batch.response.status = "error"
    /\ batch.response.data = <<>>

\* C11: a ticker that fails does not end the batch: when the request is
\* answered every ticker of it has been fetched and is either a row or a
\* failed ticker, and the answer is the aggregate failure (status error, no
\* rows) exactly when every ticker failed.
C11_FailuresDoNotAbort ==
    LoopAnswered =>
        /\ batch.i = Len(batch.clean_tickers)
        /\ Len(batch.rows) + Len(batch.failed_tickers) = Len(batch.clean_tickers)
        /\ {r.Symbol : r \in Range(batch.rows)} \cup Range(batch.failed_tickers)
              = Range(batch.clean_tickers)
        /\ AggregateFailure <=> Len(batch.failed_tickers) = Len(batch.clean_tickers)
        /\ ~AggregateFailure => batch.response.data = batch.rows

\* the first ticker used up its retries, the others were fetched all the
\* same, and one of them got its row
C11_Witness ==
    /\ LoopAnswered
    /\ Len(batch.clean_tickers) = MaxBatch
    /\ batch.exhausted # <<>>
    /\ batch.exhausted[1] = batch.clean_tickers[1]
    /\ batch.rows # <<>>
    /\ ~AggregateFailure

\* the thread is inside a with self.lock block (lines 26-35, 38-42)
InLockedBlock(r) == r.pc \in {"gate_exit", "wait_exit"}

\* C12: a thread holds the lock of the rate limiter only inside
\* can_make_request or wait_time: never while it sleeps (gate wait, backoff,
\* pacing) and never while its upstream call is out, so that the lock is
\* free whenever no thread is inside one of the two methods.
C12_NoLockAcrossSleepOrCall ==
    /\ \A t \in Threads :
          (Sleeping(th[t]) \/ th[t].pc \in {"upstream", "store"}) => lock # t
    /\ \A t \in Threads : lock = t => InLockedBlock(th[t])
    /\ (\A t \in Threads : ~InLockedBlock(th[t])) => lock = "free"

\* while a thread sleeps after a refusal another thread is inside
\* can_make_request with the lock
C12_Witness ==
    \E t, u \in Threads :
        /\ th[t].pc = "gate_sleep"
        /\ th[t].wake > now
        /\ th[u].pc = "gate_exit"
        /\ lock = u

\* the thread is between two accesses of one cache operation: after the
\* membership test of line 53 and before the read of line 54, or after the
\* len() of line 285 and before the clear() of line 286
InCacheOp(r) == r.pc \in {"cache_read", "clear"}

\* C13: the operations on the cache mapping exclude each other: while a
\* thread is inside get_cached_data or clear_cache no other thread's
\* cache_data or clear changes the mapping.
C13_CacheOpsExclusive ==
    [][\A t \in Threads :
          (InCacheOp(th[t]) /\ th'[t] = th[t]) => ticker_cache' = ticker_cache]_vars

(***************************************************************************)
(* SpecRace: a thread serving fetches of one ticker while another serves   *)
(* clear_cache                                                             *)
(***************************************************************************)
\* the history call answers with rows or with an empty table
RaceAnswers == {a \in FetchAnswers({"empty", "rows"}) : a.kind = "table" /\ a.info = "info"}

NextRace ==
    \/ \E k \in FetchTickers : Call(Fetcher, "fetch", k, k, MaxRaceOps)
    \/ Call(Other, "clear_cache", "", "", MaxRaceOps)
    \/ CacheCheck(Fetcher)
    \/ CacheRead(Fetcher)
    \/ GateEnter(Fetcher)
    \/ GateExit(Fetcher)
    \/ WaitEnter(Fetcher)
    \/ WaitExit(Fetcher)
    \/ \E a \in RaceAnswers : Upstream(Fetcher, a)
    \/ Store(Fetcher)
    \/ Wake(Fetcher)
    \/ ClearLen(Other)
    \/ ClearAll(Other)
    \/ WakeAdvance

SpecRace == Init /\ [][NextRace]_vars

\* number of sleeps of the invocation for the reason why
SleepCount(r, why) == Cardinality({i \in DOMAIN r.sleeps : r.sleeps[i].why = why})

\* the invocation is over: a value was returned, or an exception left it
Stopped(r) == r.pc \in {"done", "raised"}

\* at most max_retries upstream calls and at most max_retries gate waits
AttemptsBounded(r) ==
    /\ r.nup <= r.max_retries
    /\ r.ngate <= r.max_retries
    /\ SleepCount(r, "gate") <= r.max_retries

\* C14: a call of get_ticker_data_with_backoff ends by returning (a payload
\* or None) and in no other way, after at most max_retries upstream calls
\* and at most max_retries gate waits, whatever the other thread does.
C14_EndsDoneOrFailed ==
    \A t \in Threads :
        th[t].op = "fetch" =>
            /\ AttemptsBounded(th[t])
            /\ Stopped(th[t]) => th[t].pc = "done"

\* the bounds of C14 alone
C14_AttemptsBounded ==
    \A t \in Threads : th[t].op = "fetch" => AttemptsBounded(th[t])

\* C15: a fetch sleeps for a backoff only between two attempts: after the
\* failure of attempt max_retries it returns None without sleeping, so an
\* invocation has at most max_retries - 1 backoff sleeps.
C15_NoBackoffAfterLastAttempt ==
    \A t \in Threads :
        th[t].op = "fetch" =>
            SleepCount(th[t], "backoff") <= th[t].max_retries - 1

(***************************************************************************)
(* SpecWait: a thread serving validations while another calls the rate     *)
(* limiter, with the clock advancing between any two steps                 *)
(***************************************************************************)
\* clock advances: up to the edge of the window of the rate limiter, and a
\* whole day
WaitDeltas == {1, 59, 86400}
WaitAnswers ==
    {[kind |-> "fast_info", valid |-> TRUE],
     [kind |-> "exception", msg |-> "Connection reset"]}

NextWait ==
    \/ \E k \in FetchTickers : Call(Fetcher, "validate", k, ValidateKey(k), MaxWaitOps)
    \/ Call(Other, "can_make_request", "", "", MaxWaitOps)
    \/ CacheCheck(Fetcher)
    \/ CacheRead(Fetcher)
    \/ \E t \in Threads : GateEnter(t)
    \/ \E t \in Threads : GateExit(t)
    \/ WaitEnter(Fetcher)
    \/ WaitExit(Fetcher)
    \/ \E a \in WaitAnswers : Upstream(Fetcher, a)
    \/ Store(Fetcher)
    \/ Wake(Fetcher)
    \/ \E d \in WaitDeltas : Tick(d, MaxWaitTicks)
    \/ WakeAdvance

SpecWait == Init /\ [][NextWait]_vars

\* the thread was refused and has computed its wait
Waited(r) == r.op \in {"fetch", "validate"} /\ r.pc \in {"wait_exit", "gate_sleep"}

\* C16: the wait of a refused caller is
\* max(0, time_window - (now - oldest)), now the time of the computation
\* and oldest the oldest record of the list that produced the refusal, also
\* when the other thread calls can_make_request between the refusal and
\* the computation.
C16_WaitFromDenyingState ==
    \A t \in Threads :
        Waited(th[t]) =>
            th[t].wait_time = Max(0, time_window - (th[t].wait_at - th[t].oldest))

\* the thread has just run the body of can_make_request and is about to
\* leave its with block: requests is the list the call left
JustCalled(t) == th[t].pc = "gate_exit" /\ lock = t

\* the records the call kept, the one it appended apart
KeptRecords(t) ==
    {i \in DOMAIN requests : ~(th[t].can /\ i = Len(requests))}

\* C17: right after a call of can_make_request every record left in
\* requests, the one just appended apart, is younger than time_window
\* seconds, however old the discarded ones are.
C17_KeptRecordsInWindow ==
    \A t \in Threads :
        JustCalled(t) =>
            \A i \in KeptRecords(t) : th[t].stamp - requests[i] < time_window

\* C20: wait_time() returns a value from 0 to time_window, whatever the
\* list of records and the time of the call, so that a sleep after a
\* refusal (wait_time + 1) is never longer than time_window + 1 seconds.
C20_WaitTimeInRange ==
    \A t \in Threads :
        /\ th[t].wait_time \in 0..time_window
        /\ \A i \in DOMAIN th[t].sleeps :
              th[t].sleeps[i].why = "gate" => th[t].sleeps[i].secs \in 1..(time_window + 1)

\* a refused caller sleeps after a wait computed from a record older than
\* the window
C20_Witness ==
    \E t \in Threads :
        /\ th[t].pc = "gate_sleep"
        /\ th[t].wait_at - MinOf(requests) >= time_window
        /\ th[t].wait_time = 0

\* the step is the cache_data of thread t after an upstream call that
\* succeeded: the entry of its key becomes (now, value)
PutAfterSuccess(t) ==
    /\ th[t].pc = "store"
    /\ th[t].outcomes # <<>>
    /\ th[t].outcomes[Len(th[t].outcomes)] \in {"success", "fast_info"}
    /\ ticker_cache' = [ticker_cache EXCEPT ![th[t].key] = Entry(now, th[t].pending)]

\* the step is the clear() of thread t
ClearStep(t) ==
    /\ th[t].pc = "clear"
    /\ ticker_cache' = EmptyCache

\* C18: the cache mapping changes only by the put that follows a successful
\* upstream call, which sets the entry of that key to the new value and
\* time, and by clear: no read, expired or not, no failed attempt and no
\* exhausted fetch changes it.
C18_CacheChangesOnlyByPutOrClear ==
    [][ticker_cache' # ticker_cache =>
          \E t \in Threads : PutAfterSuccess(t) \/ ClearStep(t)]_vars

\* a fetch read an expired entry, went on to the upstream, failed, and the
\* expired entry is still in the mapping
C18_Witness ==
    \E t \in Threads :
        /\ th[t].op = "fetch"
        /\ th[t].pc = "backoff"
        /\ ticker_cache[th[t].key] # NoEntry
        /\ ~Fresh(ticker_cache[th[t].key].time, now)

(***************************************************************************)
(* SpecDup: two threads serving fetches of the same ticker                 *)
(***************************************************************************)
\* the history call answers with rows or with an empty table, and the
\* metadata is there or not
DupAnswers == {a \in FetchAnswers({"empty", "rows"}) : a.kind = "table"}

NextDup ==
    \/ \E t \in Threads, k \in FetchTickers : Call(t, "fetch", k, k, MaxDupOps)
    \/ \E t \in Threads : CacheCheck(t)
    \/ \E t \in Threads : CacheRead(t)
    \/ \E t \in Threads : GateEnter(t)
    \/ \E t \in Threads : GateExit(t)
    \/ \E t \in Threads : WaitEnter(t)
    \/ \E t \in Threads : WaitExit(t)
    \/ \E t \in Threads : \E a \in DupAnswers : Upstream(t, a)
    \/ \E t \in Threads : Store(t)
    \/ \E t \in Threads : Wake(t)
    \/ QuietWakeAdvance

SpecDup == Init /\ [][NextDup]_vars

\* the fetch missed the cache, called the upstream and returned a payload
FetchedUpstream(r) ==
    r.op = "fetch" /\ r.pc = "done" /\ r.nup >= 1 /\ r.result # None

\* the time of the cache_data of a fetch that returned: the pause of line
\* 141 began then
StoreTime(r) == r.wake - SUCCESS_PAUSE

\* both threads fetched the same ticker from the upstream
BothFetched ==
    /\ \A t \in Threads : FetchedUpstream(th[t])
    /\ \A t, u \in Threads : th[t].key = th[u].key

\* C19: when two concurrent fetches of one ticker both missed the cache,
\* both called the upstream and both succeeded, the cache holds one entry,
\* under that ticker, and it is the entry of the put that ran last.
C19_LastPutWins ==
    BothFetched =>
        LET last == CHOOSE t \in Threads : \A u \in Threads : StoreTime(th[u]) <= StoreTime(th[t])
            key == th[last].key
        IN  /\ CacheLen(ticker_cache) = 1
            /\ ticker_cache[key] # NoEntry
            /\ ticker_cache[key].time = StoreTime(th[last])
            /\ \E t \in Threads :
                  /\ StoreTime(th[t]) = StoreTime(th[last])
                  /\ ticker_cache[key].data = th[t].result
            /\ ticker_cache[key] = lastPut[key]

\* both missed the cache (the later fetch had checked it before the earlier
\* put, whose entry was still fresh at the later put), both called the
\* upstream, and the payload of the later put replaced that of the earlier
C19_Witness ==
    /\ BothFetched
    /\ \E t, u \in Threads :
          /\ StoreTime(th[t]) < StoreTime(th[u])
          /\ Fresh(StoreTime(th[t]), StoreTime(th[u]))
          /\ th[t].result # th[u].result
          /\ ticker_cache[th[u].key].data = th[u].result

====
